---- MODULE Spec2Model ----
(***************************************************************************)
(* Model of xitca-postgres' query pipelining (postgres/src/pipeline.rs):   *)
(* the Pipeline builder (query / query_raw), the dispatch bridge           *)
(* (Client::pipeline / Client::_pipeline), the PipelineStream              *)
(* demultiplexer and the per-query PipelineItem cursor.                    *)
(*                                                                         *)
(* The byte buffer is modelled at the granularity of frontend messages     *)
(* (one token per message), the reply cursor at the granularity of         *)
(* backend messages.                                                       *)
(***************************************************************************)
EXTENDS Integers, Sequences, FiniteSets, TLC

\* ---------------------------------------------------------------- bounds
\* most queries one pipeline holds
MaxQueries == 2
\* most data rows the server returns for one query
MaxRows == 3
\* most data rows per query in a reply stream that may be ill formed
MaxFaultRows == 1
\* most data rows per query where the caller's progress is followed
MaxLiveRows == 2

\* ------------------------------------------------------ statements (input)
\* prepared statements the caller holds: a SELECT with two result columns and
\* no parameter, an UPDATE with no result column and one parameter.
Statements == {"select_users", "update_users"}

\* Statement::params().len()
StatementParams(s) == IF s = "select_users" THEN 0 ELSE 1

\* Statement::columns(): the column schema a query's rows are decoded against
StatementColumns(s) == IF s = "select_users" THEN <<"id", "name">> ELSE <<>>

\* numbers of parameters a caller may pass to query / query_raw
ParamCounts == {0, 1}

\* affected-row counts the server may report for an UPDATE
AffectedCounts == {0, 5}

\* ------------------------------------------------------- frontend messages
Bind(s) == <<"Bind", s>>
Execute == <<"Execute", "">>
Sync == <<"Sync", "">>
\* what a failed encode_bind leaves behind: the head of a Bind message
PartialBind(s) == <<"PartialBind", s>>

\* -------------------------------------------------------- backend messages
BindComplete == [kind |-> "BindComplete", body |-> <<0, 0>>]
DataRow(q, r) == [kind |-> "DataRow", body |-> <<q, r>>]
CommandComplete(q, n) == [kind |-> "CommandComplete", body |-> <<q, n>>]
ReadyForQuery == [kind |-> "ReadyForQuery", body |-> <<0, 0>>]
ErrorResponse == [kind |-> "ErrorResponse", body |-> <<0, 0>>]

\* ------------------------------------------------------------------ state
VARIABLES
    phase,      \* "Unbuilt" | "Building" | "Streaming" | "Panicked"
    SYNC_MODE,  \* Pipeline's const generic SYNC_MODE
    columns,    \* Pipeline.columns, then PipelineStream.columns
    buf,        \* Pipeline.buf
    tx,         \* what Client.tx.send_multi_with was handed: bytes and sync_count
    res,        \* PipelineStream.res: the messages the reply cursor still holds
    item,       \* the live PipelineItem, or NoItem
    dispatch,   \* history: the submitting call, the buffer it was given, and
                \* what the server chose to return per query
    queries,    \* history: statements encoded with success, in call order
    yielded,    \* history: per Item yielded, its schema, rows delivered, count
    last        \* history: the last call and what it returned

vars == <<phase, SYNC_MODE, columns, buf, tx, res, item, dispatch, queries, yielded, last>>

NoItem == [live |-> FALSE, finished |-> FALSE, columns |-> <<>>]
NotSent == [sent |-> FALSE, bytes |-> <<>>, sync_count |-> 0]
NoDispatch ==
    [op |-> "none", given |-> <<>>, shapes |-> <<>>, reply |-> <<>>, well_formed |-> FALSE]
NoArgs == [stmt |-> "", nparams |-> 0, encodes |-> TRUE]
NoCall ==
    [op |-> "none", ret |-> "none", val |-> 0, skipped |-> <<>>, args |-> NoArgs,
     before |-> <<>>, nread |-> 0, failed |-> FALSE]

\* what a read of the reply cursor, or a message it returned, fails a call with
Errors == {"Unexpected", "Closed"}

\* ------------------------------------------------------- Pipeline builder
\* what a buffer supplied by the caller may hold from an earlier use
CallerBufs == {<<>>, <<Bind("update_users"), Execute, Sync>>, <<PartialBind("select_users")>>}

\* capacities a caller may ask for
Capacities == {0, 2}

\* BytesMut::truncate
truncate(b, len) == IF len < Len(b) THEN SubSeq(b, 1, len) ELSE b

\* BytesMut::clear: truncate to nothing
clear(b) == truncate(b, 0)

\* Pipeline::with_capacity: an empty schema queue and a fresh owned buffer
with_capacity(cap) == [panic |-> FALSE, columns |-> <<>>, buf |-> <<>>]

\* Pipeline::new
new == with_capacity(0)

\* Pipeline::unsync
unsync == with_capacity(0)

\* with_capacity_from_buf changed to keep what the buffer holds
with_capacity_from_buf_no_clear(cap, b) == [panic |-> FALSE, columns |-> <<>>, buf |-> b]

\* Pipeline::with_capacity_from_buf
with_capacity_from_buf(cap, b) == [panic |-> FALSE, columns |-> <<>>, buf |-> clear(b)]

\* Default changed to build what new builds
default_as_new == new

\* Default::default for Pipeline<Owned, true>: unimplemented!()
default == [panic |-> TRUE, columns |-> <<>>, buf |-> <<>>]

Constructed(op, r, given) ==
    /\ phase = "Unbuilt"
    /\ phase' = IF r.panic THEN "Panicked" ELSE "Building"
    /\ columns' = r.columns
    /\ buf' = r.buf
    /\ last' = [NoCall EXCEPT !.op = op, !.ret = IF r.panic THEN "Panic" ELSE "Ok",
                              !.before = given]
    /\ UNCHANGED <<SYNC_MODE, tx, res, item, dispatch, queries, yielded>>

New == SYNC_MODE /\ Constructed("new", new, <<>>)

Unsync == ~SYNC_MODE /\ Constructed("unsync", unsync, <<>>)

WithCapacity == \E cap \in Capacities : Constructed("with_capacity", with_capacity(cap), <<>>)

WithCapacityFromBuf ==
    \E cap \in Capacities, b \in CallerBufs :
        Constructed("with_capacity_from_buf", with_capacity_from_buf(cap, b), b)

Default == SYNC_MODE /\ Constructed("default", default, <<>>)

\* Statement::params_assert: the arity check of query_raw
params_assert(stmt, nparams) == StatementParams(stmt) = nparams

\* query::encode::encode_maybe_sync: Bind and Execute, then Sync in sync mode.
\* A failure (a parameter that does not serialise) leaves a partial Bind.
encode_maybe_sync(sync, b, stmt, encodes) ==
    IF encodes
    THEN [ok |-> TRUE,
          buf |-> b \o <<Bind(stmt), Execute>> \o (IF sync THEN <<Sync>> ELSE <<>>)]
    ELSE [ok |-> FALSE, buf |-> Append(b, PartialBind(stmt))]

\* query_raw changed to enqueue the schema before the encoding is known to
\* have succeeded
query_raw_push_first(cols, b, sync, stmt, nparams, encodes) ==
    IF ~params_assert(stmt, nparams)
    THEN [ret |-> "Panic", columns |-> cols, buf |-> b]
    ELSE LET len == Len(b)
             e == encode_maybe_sync(sync, b, stmt, encodes)
         IN [ret |-> IF e.ok THEN "Ok" ELSE "EncodeError",
             columns |-> Append(cols, StatementColumns(stmt)),
             buf |-> IF e.ok THEN e.buf ELSE truncate(e.buf, len)]

\* query_raw changed to leave the buffer as the failed encoding left it
query_raw_no_truncate(cols, b, sync, stmt, nparams, encodes) ==
    IF ~params_assert(stmt, nparams)
    THEN [ret |-> "Panic", columns |-> cols, buf |-> b]
    ELSE LET e == encode_maybe_sync(sync, b, stmt, encodes)
         IN IF e.ok
            THEN [ret |-> "Ok", columns |-> Append(cols, StatementColumns(stmt)),
                  buf |-> e.buf]
            ELSE [ret |-> "EncodeError", columns |-> cols, buf |-> e.buf]

\* query_raw changed to check the arity after the encoding
query_raw_assert_late(cols, b, sync, stmt, nparams, encodes) ==
    LET len == Len(b)
        e == encode_maybe_sync(sync, b, stmt, encodes)
    IN IF ~e.ok
       THEN [ret |-> "EncodeError", columns |-> cols, buf |-> truncate(e.buf, len)]
       ELSE IF ~params_assert(stmt, nparams)
       THEN [ret |-> "Panic", columns |-> cols, buf |-> e.buf]
       ELSE [ret |-> "Ok", columns |-> Append(cols, StatementColumns(stmt)),
             buf |-> e.buf]

\* Pipeline::query_raw
query_raw(cols, b, sync, stmt, nparams, encodes) ==
    IF ~params_assert(stmt, nparams)
    THEN [ret |-> "Panic", columns |-> cols, buf |-> b]
    ELSE LET len == Len(b)
             e == encode_maybe_sync(sync, b, stmt, encodes)
         IN IF e.ok
            THEN [ret |-> "Ok", columns |-> Append(cols, StatementColumns(stmt)),
                  buf |-> e.buf]
            ELSE [ret |-> "EncodeError", columns |-> cols, buf |-> truncate(e.buf, len)]

\* Pipeline::query: query_raw over slice_iter(params)
query(cols, b, sync, stmt, nparams, encodes) ==
    query_raw(cols, b, sync, stmt, nparams, encodes)

Called(op, r, stmt, nparams, encodes) ==
    /\ columns' = r.columns
    /\ buf' = r.buf
    /\ phase' = IF r.ret = "Panic" THEN "Panicked" ELSE phase
    /\ queries' = IF r.ret = "Ok" THEN Append(queries, stmt) ELSE queries
    /\ last' = [NoCall EXCEPT !.op = op, !.ret = r.ret,
                              !.args = [stmt |-> stmt, nparams |-> nparams,
                                        encodes |-> encodes]]
    /\ UNCHANGED <<SYNC_MODE, tx, res, item, dispatch, yielded>>

QueryRaw ==
    /\ phase = "Building"
    /\ Len(columns) < MaxQueries
    /\ \E stmt \in Statements, nparams \in ParamCounts, encodes \in BOOLEAN :
          Called("query_raw", query_raw(columns, buf, SYNC_MODE, stmt, nparams, encodes),
                 stmt, nparams, encodes)

Query ==
    /\ phase = "Building"
    /\ Len(columns) < MaxQueries
    /\ \E stmt \in Statements, nparams \in ParamCounts, encodes \in BOOLEAN :
          Called("query", query(columns, buf, SYNC_MODE, stmt, nparams, encodes),
                 stmt, nparams, encodes)

\* -------------------------------------------------------------- the server
\* the statements of the Bind messages the server receives, in order
RECURSIVE BoundStatements(_)
BoundStatements(bytes) ==
    IF bytes = <<>> THEN <<>>
    ELSE IF Head(bytes)[1] = "Bind"
         THEN <<Head(bytes)[2]>> \o BoundStatements(Tail(bytes))
         ELSE BoundStatements(Tail(bytes))

\* what executing one statement may produce: a SELECT returns 0..MaxRows rows
\* and reports their number, an UPDATE returns no row and reports a count
ShapesOf(stmt) ==
    IF StatementColumns(stmt) # <<>>
    THEN {[rows |-> r, n |-> r] : r \in 0..MaxRows}
    ELSE {[rows |-> 0, n |-> n] : n \in AffectedCounts}

RECURSIVE ShapeSeqs(_)
ShapeSeqs(stmts) ==
    IF stmts = <<>> THEN {<<>>}
    ELSE {<<h>> \o t : h \in ShapesOf(Head(stmts)), t \in ShapeSeqs(Tail(stmts))}

\* the data rows of query q
DataRows(q, n) == [r \in 1..n |-> DataRow(q, r)]

\* the server's replies to the bytes it receives: BindComplete per Bind, the
\* rows and the CommandComplete of the k-th query per Execute, ReadyForQuery
\* per Sync, an ErrorResponse for anything else
RECURSIVE ServerReply(_, _, _)
ServerReply(bytes, shp, k) ==
    IF bytes = <<>> THEN <<>>
    ELSE LET t == Head(bytes) IN
         IF t[1] = "Bind" THEN <<BindComplete>> \o ServerReply(Tail(bytes), shp, k)
         ELSE IF t[1] = "Execute" /\ k <= Len(shp)
         THEN DataRows(k, shp[k].rows) \o <<CommandComplete(k, shp[k].n)>>
                  \o ServerReply(Tail(bytes), shp, k + 1)
         ELSE IF t[1] = "Sync" THEN <<ReadyForQuery>> \o ServerReply(Tail(bytes), shp, k)
         ELSE <<ErrorResponse>> \o ServerReply(Tail(bytes), shp, k)

\* the reply cursor of a request with sync_count boundaries: the replies up to
\* and including the sync_count-th ReadyForQuery
RECURSIVE TakeBoundaries(_, _)
TakeBoundaries(msgs, n) ==
    IF n <= 0 \/ msgs = <<>> THEN <<>>
    ELSE <<Head(msgs)>> \o
         TakeBoundaries(Tail(msgs), IF Head(msgs).kind = "ReadyForQuery" THEN n - 1 ELSE n)

\* per query: bind-complete, its data rows, command-complete, and in sync
\* framing the synchronization acknowledgement
RECURSIVE QueryReplies(_, _, _)
QueryReplies(shp, k, sync) ==
    IF k > Len(shp) THEN <<>>
    ELSE <<BindComplete>> \o DataRows(k, shp[k].rows) \o <<CommandComplete(k, shp[k].n)>>
             \o (IF sync THEN <<ReadyForQuery>> ELSE <<>>)
             \o QueryReplies(shp, k + 1, sync)

\* a reply stream that is well formed for n >= 1 queries with the rows and
\* counts shp: the replies of each query in turn, and in unsync framing the
\* one synchronization acknowledgement at the end
WellFormed(reply, shp, n, sync) ==
    /\ n >= 1
    /\ Len(shp) = n
    /\ reply = QueryReplies(shp, 1, sync) \o (IF sync THEN <<>> ELSE <<ReadyForQuery>>)

\* ClientTx::send_multi_with: the bytes and the boundary count go to the driver
send_multi_with(bytes, sync_count) ==
    [sent |-> TRUE, bytes |-> bytes, sync_count |-> sync_count]

\* -------------------------------------------------------- dispatch bridge
\* _pipeline changed to declare one boundary per query in either mode
_pipeline_count_per_query(sync, ENCODE_SYNC, cols, b) ==
    IF b = <<>>
    THEN [panic |-> TRUE, buf |-> b, tx |-> NotSent]
    ELSE LET b2 == IF ~sync /\ ENCODE_SYNC THEN Append(b, Sync) ELSE b
         IN [panic |-> FALSE, buf |-> b2, tx |-> send_multi_with(b2, Len(cols))]

\* _pipeline changed to encode the Sync in either mode
_pipeline_sync_always(sync, ENCODE_SYNC, cols, b) ==
    IF b = <<>>
    THEN [panic |-> TRUE, buf |-> b, tx |-> NotSent]
    ELSE LET b2 == IF ENCODE_SYNC THEN Append(b, Sync) ELSE b
             sync_count == IF sync THEN Len(cols) ELSE 1
         IN [panic |-> FALSE, buf |-> b2, tx |-> send_multi_with(b2, sync_count)]

\* _pipeline changed to check the buffer after the Sync was encoded
_pipeline_assert_late(sync, ENCODE_SYNC, cols, b) ==
    LET b2 == IF ~sync /\ ENCODE_SYNC THEN Append(b, Sync) ELSE b
        sync_count == IF sync THEN Len(cols) ELSE 1
    IN IF b2 = <<>>
       THEN [panic |-> TRUE, buf |-> b2, tx |-> NotSent]
       ELSE [panic |-> FALSE, buf |-> b2, tx |-> send_multi_with(b2, sync_count)]

\* Client::_pipeline
_pipeline(sync, ENCODE_SYNC, cols, b) ==
    IF b = <<>>
    THEN [panic |-> TRUE, buf |-> b, tx |-> NotSent]
    ELSE LET b2 == IF ~sync /\ ENCODE_SYNC THEN Append(b, Sync) ELSE b
             sync_count == IF sync THEN Len(cols) ELSE 1
         IN [panic |-> FALSE, buf |-> b2, tx |-> send_multi_with(b2, sync_count)]

Submitted(op, r, b) ==
    /\ buf' = r.buf
    /\ tx' = r.tx
    /\ phase' = IF r.panic THEN "Panicked" ELSE "Streaming"
    /\ IF r.panic
       THEN /\ res' = <<>>
            /\ dispatch' = [NoDispatch EXCEPT !.op = op, !.given = b]
       ELSE \E shp \in ShapeSeqs(BoundStatements(r.tx.bytes)) :
               LET reply == TakeBoundaries(ServerReply(r.tx.bytes, shp, 1),
                                           r.tx.sync_count)
               IN /\ res' = reply
                  /\ dispatch' = [op |-> op, given |-> b, shapes |-> shp,
                                  reply |-> reply,
                                  well_formed |->
                                      WellFormed(reply, shp, Len(queries), SYNC_MODE)]
    /\ last' = [NoCall EXCEPT !.op = op, !.ret = IF r.panic THEN "Panic" ELSE "Ok"]
    /\ UNCHANGED <<SYNC_MODE, columns, item, queries, yielded>>

\* Client::pipeline: _pipeline::<SYNC_MODE, true>, then the PipelineStream
ClientPipeline ==
    /\ phase = "Building"
    /\ Submitted("pipeline", _pipeline(SYNC_MODE, TRUE, columns, buf), buf)

\* a caller inside the crate that has encoded the Sync itself and calls
\* _pipeline::<false, false>
PresyncedBuf(b) == IF b = <<>> THEN b ELSE Append(b, Sync)

ClientPipelinePresynced ==
    /\ phase = "Building"
    /\ ~SYNC_MODE
    /\ Submitted("_pipeline", _pipeline(SYNC_MODE, FALSE, columns, PresyncedBuf(buf)),
                 PresyncedBuf(buf))

\* ------------------------------------------------------- PipelineStream
\* Row::try_new: a view of one DataRow body over the Item's column schema
Row_try_new(cols, body) == [columns |-> cols, body |-> body]

\* query::decode::body_to_affected_rows: the count a CommandComplete carries
body_to_affected_rows(body) == body[2]

\* try_next changed to take the schema from the back of the queue
RECURSIVE PipelineStream_try_next_pop_back(_, _, _)
PipelineStream_try_next_pop_back(cols, msgs, skipped) ==
    IF cols = <<>>
    THEN [ret |-> "None", columns |-> cols, res |-> msgs, item |-> NoItem,
          skipped |-> skipped]
    ELSE IF msgs = <<>>
    THEN [ret |-> "Closed", columns |-> cols, res |-> msgs, item |-> NoItem,
          skipped |-> skipped]
    ELSE LET m == Head(msgs) IN
         IF m.kind = "BindComplete"
         THEN [ret |-> "Some", columns |-> SubSeq(cols, 1, Len(cols) - 1),
               res |-> Tail(msgs),
               item |-> [live |-> TRUE, finished |-> FALSE, columns |-> cols[Len(cols)]],
               skipped |-> skipped]
         ELSE IF m.kind \in {"DataRow", "CommandComplete", "ReadyForQuery"}
         THEN PipelineStream_try_next_pop_back(cols, Tail(msgs), Append(skipped, m))
         ELSE [ret |-> "Unexpected", columns |-> cols, res |-> Tail(msgs),
               item |-> NoItem, skipped |-> skipped]

\* try_next changed to catch up over data rows only
RECURSIVE PipelineStream_try_next_rows_only(_, _, _)
PipelineStream_try_next_rows_only(cols, msgs, skipped) ==
    IF cols = <<>>
    THEN [ret |-> "None", columns |-> cols, res |-> msgs, item |-> NoItem,
          skipped |-> skipped]
    ELSE IF msgs = <<>>
    THEN [ret |-> "Closed", columns |-> cols, res |-> msgs, item |-> NoItem,
          skipped |-> skipped]
    ELSE LET m == Head(msgs) IN
         IF m.kind = "BindComplete"
         THEN [ret |-> "Some", columns |-> Tail(cols), res |-> Tail(msgs),
               item |-> [live |-> TRUE, finished |-> FALSE, columns |-> Head(cols)],
               skipped |-> skipped]
         ELSE IF m.kind \in {"DataRow", "ReadyForQuery"}
         THEN PipelineStream_try_next_rows_only(cols, Tail(msgs), Append(skipped, m))
         ELSE [ret |-> "Unexpected", columns |-> cols, res |-> Tail(msgs),
               item |-> NoItem, skipped |-> skipped]

\* try_next changed to have no catch-up arm
RECURSIVE PipelineStream_try_next_no_catch_up(_, _, _)
PipelineStream_try_next_no_catch_up(cols, msgs, skipped) ==
    IF cols = <<>>
    THEN [ret |-> "None", columns |-> cols, res |-> msgs, item |-> NoItem,
          skipped |-> skipped]
    ELSE IF msgs = <<>>
    THEN [ret |-> "Closed", columns |-> cols, res |-> msgs, item |-> NoItem,
          skipped |-> skipped]
    ELSE LET m == Head(msgs) IN
         IF m.kind = "BindComplete"
         THEN [ret |-> "Some", columns |-> Tail(cols), res |-> Tail(msgs),
               item |-> [live |-> TRUE, finished |-> FALSE, columns |-> Head(cols)],
               skipped |-> skipped]
         ELSE IF m.kind = "ReadyForQuery"
         THEN PipelineStream_try_next_no_catch_up(cols, Tail(msgs), Append(skipped, m))
         ELSE [ret |-> "Unexpected", columns |-> cols, res |-> Tail(msgs),
               item |-> NoItem, skipped |-> skipped]

\* try_next changed to pop a schema entry when it skips a command-complete
RECURSIVE PipelineStream_try_next_pop_on_skip(_, _, _)
PipelineStream_try_next_pop_on_skip(cols, msgs, skipped) ==
    IF cols = <<>>
    THEN [ret |-> "None", columns |-> cols, res |-> msgs, item |-> NoItem,
          skipped |-> skipped]
    ELSE IF msgs = <<>>
    THEN [ret |-> "Closed", columns |-> cols, res |-> msgs, item |-> NoItem,
          skipped |-> skipped]
    ELSE LET m == Head(msgs) IN
         IF m.kind = "BindComplete"
         THEN [ret |-> "Some", columns |-> Tail(cols), res |-> Tail(msgs),
               item |-> [live |-> TRUE, finished |-> FALSE, columns |-> Head(cols)],
               skipped |-> skipped]
         ELSE IF m.kind = "CommandComplete"
         THEN PipelineStream_try_next_pop_on_skip(Tail(cols), Tail(msgs),
                                                  Append(skipped, m))
         ELSE IF m.kind \in {"DataRow", "ReadyForQuery"}
         THEN PipelineStream_try_next_pop_on_skip(cols, Tail(msgs), Append(skipped, m))
         ELSE [ret |-> "Unexpected", columns |-> cols, res |-> Tail(msgs),
               item |-> NoItem, skipped |-> skipped]

\* try_next changed to loop whatever the length of the schema queue
RECURSIVE PipelineStream_try_next_unbounded(_, _, _)
PipelineStream_try_next_unbounded(cols, msgs, skipped) ==
    IF msgs = <<>>
    THEN [ret |-> IF cols = <<>> THEN "None" ELSE "Closed", columns |-> cols,
          res |-> msgs, item |-> NoItem, skipped |-> skipped]
    ELSE LET m == Head(msgs) IN
         IF m.kind = "BindComplete"
         THEN [ret |-> "Some",
               columns |-> IF cols = <<>> THEN cols ELSE Tail(cols),
               res |-> Tail(msgs),
               item |-> [live |-> TRUE, finished |-> FALSE,
                         columns |-> IF cols = <<>> THEN <<>> ELSE Head(cols)],
               skipped |-> skipped]
         ELSE IF m.kind \in {"DataRow", "CommandComplete", "ReadyForQuery"}
         THEN PipelineStream_try_next_unbounded(cols, Tail(msgs), Append(skipped, m))
         ELSE [ret |-> "Unexpected", columns |-> cols, res |-> Tail(msgs),
               item |-> NoItem, skipped |-> skipped]

\* try_next changed to leave on the cursor the data row or command-complete
\* it meets, and fail
RECURSIVE PipelineStream_try_next_stuck_on_rows(_, _, _)
PipelineStream_try_next_stuck_on_rows(cols, msgs, skipped) ==
    IF cols = <<>>
    THEN [ret |-> "None", columns |-> cols, res |-> msgs, item |-> NoItem,
          skipped |-> skipped]
    ELSE IF msgs = <<>>
    THEN [ret |-> "Closed", columns |-> cols, res |-> msgs, item |-> NoItem,
          skipped |-> skipped]
    ELSE LET m == Head(msgs) IN
         IF m.kind = "BindComplete"
         THEN [ret |-> "Some", columns |-> Tail(cols), res |-> Tail(msgs),
               item |-> [live |-> TRUE, finished |-> FALSE, columns |-> Head(cols)],
               skipped |-> skipped]
         ELSE IF m.kind = "ReadyForQuery"
         THEN PipelineStream_try_next_stuck_on_rows(cols, Tail(msgs), Append(skipped, m))
         ELSE [ret |-> "Unexpected", columns |-> cols, res |-> msgs,
               item |-> NoItem, skipped |-> skipped]

\* try_next changed to read what is left on the cursor before it reports the
\* end of the Items
RECURSIVE PipelineStream_try_next_drain(_, _, _)
PipelineStream_try_next_drain(cols, msgs, skipped) ==
    IF cols = <<>>
    THEN [ret |-> "None", columns |-> cols, res |-> <<>>, item |-> NoItem,
          skipped |-> skipped \o msgs]
    ELSE IF msgs = <<>>
    THEN [ret |-> "Closed", columns |-> cols, res |-> msgs, item |-> NoItem,
          skipped |-> skipped]
    ELSE LET m == Head(msgs) IN
         IF m.kind = "BindComplete"
         THEN [ret |-> "Some", columns |-> Tail(cols), res |-> Tail(msgs),
               item |-> [live |-> TRUE, finished |-> FALSE, columns |-> Head(cols)],
               skipped |-> skipped]
         ELSE IF m.kind \in {"DataRow", "CommandComplete", "ReadyForQuery"}
         THEN PipelineStream_try_next_drain(cols, Tail(msgs), Append(skipped, m))
         ELSE [ret |-> "Unexpected", columns |-> cols, res |-> Tail(msgs),
               item |-> NoItem, skipped |-> skipped]

\* try_next changed to pass over a message of any kind it does not match
RECURSIVE PipelineStream_try_next_skip_unknown(_, _, _)
PipelineStream_try_next_skip_unknown(cols, msgs, skipped) ==
    IF cols = <<>>
    THEN [ret |-> "None", columns |-> cols, res |-> msgs, item |-> NoItem,
          skipped |-> skipped]
    ELSE IF msgs = <<>>
    THEN [ret |-> "Closed", columns |-> cols, res |-> msgs, item |-> NoItem,
          skipped |-> skipped]
    ELSE LET m == Head(msgs) IN
         IF m.kind = "BindComplete"
         THEN [ret |-> "Some", columns |-> Tail(cols), res |-> Tail(msgs),
               item |-> [live |-> TRUE, finished |-> FALSE, columns |-> Head(cols)],
               skipped |-> skipped]
         ELSE PipelineStream_try_next_skip_unknown(cols, Tail(msgs), Append(skipped, m))

\* try_next changed to read the cursor before it tests the schema queue
RECURSIVE PipelineStream_try_next_read_first(_, _, _)
PipelineStream_try_next_read_first(cols, msgs, skipped) ==
    IF cols = <<>>
    THEN [ret |-> "None", columns |-> cols,
          res |-> IF msgs = <<>> THEN msgs ELSE Tail(msgs), item |-> NoItem,
          skipped |-> skipped]
    ELSE IF msgs = <<>>
    THEN [ret |-> "Closed", columns |-> cols, res |-> msgs, item |-> NoItem,
          skipped |-> skipped]
    ELSE LET m == Head(msgs) IN
         IF m.kind = "BindComplete"
         THEN [ret |-> "Some", columns |-> Tail(cols), res |-> Tail(msgs),
               item |-> [live |-> TRUE, finished |-> FALSE, columns |-> Head(cols)],
               skipped |-> skipped]
         ELSE IF m.kind \in {"DataRow", "CommandComplete", "ReadyForQuery"}
         THEN PipelineStream_try_next_read_first(cols, Tail(msgs), Append(skipped, m))
         ELSE [ret |-> "Unexpected", columns |-> cols, res |-> Tail(msgs),
               item |-> NoItem, skipped |-> skipped]

\* PipelineStream::try_next, the whole loop; skipped collects what it discards
RECURSIVE PipelineStream_try_next(_, _, _)
PipelineStream_try_next(cols, msgs, skipped) ==
    IF cols = <<>>
    THEN [ret |-> "None", columns |-> cols, res |-> msgs, item |-> NoItem,
          skipped |-> skipped]
    ELSE IF msgs = <<>>
    THEN [ret |-> "Closed", columns |-> cols, res |-> msgs, item |-> NoItem,
          skipped |-> skipped]
    ELSE LET m == Head(msgs) IN
         IF m.kind = "BindComplete"
         THEN [ret |-> "Some", columns |-> Tail(cols), res |-> Tail(msgs),
               item |-> [live |-> TRUE, finished |-> FALSE, columns |-> Head(cols)],
               skipped |-> skipped]
         ELSE IF m.kind \in {"DataRow", "CommandComplete"}
         THEN PipelineStream_try_next(cols, Tail(msgs), Append(skipped, m))
         ELSE IF m.kind = "ReadyForQuery"
         THEN PipelineStream_try_next(cols, Tail(msgs), Append(skipped, m))
         ELSE [ret |-> "Unexpected", columns |-> cols, res |-> Tail(msgs),
               item |-> NoItem, skipped |-> skipped]

\* size_hint changed to promise no lower bound
size_hint_no_lower_bound(cols) == LET len == Len(cols) IN <<0, <<len>>>>

\* PipelineStream::size_hint: (lower bound, Some(upper bound))
size_hint(cols) == LET len == Len(cols) IN <<len, <<len>>>>

\* try_next changed to read the cursor without testing the finished flag
PipelineItem_try_next_unguarded(it, msgs) ==
    IF msgs = <<>>
    THEN [ret |-> "Closed", item |-> it, res |-> msgs, row |-> <<>>]
    ELSE LET m == Head(msgs) IN
         IF m.kind = "DataRow"
         THEN [ret |-> "Some", item |-> it, res |-> Tail(msgs),
               row |-> <<Row_try_new(it.columns, m.body)>>]
         ELSE IF m.kind = "CommandComplete"
         THEN [ret |-> "None", item |-> [it EXCEPT !.finished = TRUE],
               res |-> Tail(msgs), row |-> <<>>]
         ELSE [ret |-> "Unexpected", item |-> it, res |-> Tail(msgs), row |-> <<>>]

\* try_next changed to take the end of the cursor as the end of the rows
PipelineItem_try_next_end_on_closed(it, msgs) ==
    IF ~it.finished
    THEN IF msgs = <<>>
         THEN [ret |-> "None", item |-> [it EXCEPT !.finished = TRUE], res |-> msgs,
               row |-> <<>>]
         ELSE LET m == Head(msgs) IN
              IF m.kind = "DataRow"
              THEN [ret |-> "Some", item |-> it, res |-> Tail(msgs),
                    row |-> <<Row_try_new(it.columns, m.body)>>]
              ELSE IF m.kind = "CommandComplete"
              THEN [ret |-> "None", item |-> [it EXCEPT !.finished = TRUE],
                    res |-> Tail(msgs), row |-> <<>>]
              ELSE [ret |-> "Unexpected", item |-> it, res |-> Tail(msgs), row |-> <<>>]
    ELSE [ret |-> "None", item |-> it, res |-> msgs, row |-> <<>>]

\* try_next changed to take ready-for-query as the end of the Item's rows
PipelineItem_try_next_ends_on_ready(it, msgs) ==
    IF ~it.finished
    THEN IF msgs = <<>>
         THEN [ret |-> "Closed", item |-> it, res |-> msgs, row |-> <<>>]
         ELSE LET m == Head(msgs) IN
              IF m.kind = "DataRow"
              THEN [ret |-> "Some", item |-> it, res |-> Tail(msgs),
                    row |-> <<Row_try_new(it.columns, m.body)>>]
              ELSE IF m.kind \in {"CommandComplete", "ReadyForQuery"}
              THEN [ret |-> "None", item |-> [it EXCEPT !.finished = TRUE],
                    res |-> Tail(msgs), row |-> <<>>]
              ELSE [ret |-> "Unexpected", item |-> it, res |-> Tail(msgs), row |-> <<>>]
    ELSE [ret |-> "None", item |-> it, res |-> msgs, row |-> <<>>]

\* try_next changed to mark the Item finished when it returns a row
PipelineItem_try_next_finish_on_row(it, msgs) ==
    IF ~it.finished
    THEN IF msgs = <<>>
         THEN [ret |-> "Closed", item |-> it, res |-> msgs, row |-> <<>>]
         ELSE LET m == Head(msgs) IN
              IF m.kind = "DataRow"
              THEN [ret |-> "Some", item |-> [it EXCEPT !.finished = TRUE],
                    res |-> Tail(msgs), row |-> <<Row_try_new(it.columns, m.body)>>]
              ELSE IF m.kind = "CommandComplete"
              THEN [ret |-> "None", item |-> [it EXCEPT !.finished = TRUE],
                    res |-> Tail(msgs), row |-> <<>>]
              ELSE [ret |-> "Unexpected", item |-> it, res |-> Tail(msgs), row |-> <<>>]
    ELSE [ret |-> "None", item |-> it, res |-> msgs, row |-> <<>>]

\* PipelineItem::try_next
PipelineItem_try_next(it, msgs) ==
    IF ~it.finished
    THEN IF msgs = <<>>
         THEN [ret |-> "Closed", item |-> it, res |-> msgs, row |-> <<>>]
         ELSE LET m == Head(msgs) IN
              IF m.kind = "DataRow"
              THEN [ret |-> "Some", item |-> it, res |-> Tail(msgs),
                    row |-> <<Row_try_new(it.columns, m.body)>>]
              ELSE IF m.kind = "CommandComplete"
              THEN [ret |-> "None", item |-> [it EXCEPT !.finished = TRUE],
                    res |-> Tail(msgs), row |-> <<>>]
              ELSE [ret |-> "Unexpected", item |-> it, res |-> Tail(msgs), row |-> <<>>]
    ELSE [ret |-> "None", item |-> it, res |-> msgs, row |-> <<>>]

\* row_affected changed to discard a message of any kind until the
\* command-complete
RECURSIVE PipelineItem_row_affected_skip_any(_, _, _)
PipelineItem_row_affected_skip_any(it, msgs, skipped) ==
    IF it.finished
    THEN [ret |-> "Panic", val |-> 0, finished |-> TRUE, res |-> msgs, skipped |-> skipped]
    ELSE IF msgs = <<>>
    THEN [ret |-> "Closed", val |-> 0, finished |-> FALSE, res |-> msgs,
          skipped |-> skipped]
    ELSE LET m == Head(msgs) IN
         IF m.kind = "CommandComplete"
         THEN [ret |-> "Ok", val |-> body_to_affected_rows(m.body), finished |-> TRUE,
               res |-> Tail(msgs), skipped |-> skipped]
         ELSE PipelineItem_row_affected_skip_any(it, Tail(msgs), Append(skipped, m))

\* row_affected changed to have no assertion on the finished flag
RECURSIVE PipelineItem_row_affected_no_assert(_, _, _)
PipelineItem_row_affected_no_assert(it, msgs, skipped) ==
    IF msgs = <<>>
    THEN [ret |-> "Closed", val |-> 0, finished |-> it.finished, res |-> msgs,
          skipped |-> skipped]
    ELSE LET m == Head(msgs) IN
         IF m.kind = "DataRow"
         THEN PipelineItem_row_affected_no_assert(it, Tail(msgs), Append(skipped, m))
         ELSE IF m.kind = "CommandComplete"
         THEN [ret |-> "Ok", val |-> body_to_affected_rows(m.body), finished |-> TRUE,
               res |-> Tail(msgs), skipped |-> skipped]
         ELSE [ret |-> "Unexpected", val |-> 0, finished |-> it.finished,
               res |-> Tail(msgs), skipped |-> skipped]

\* PipelineItem::row_affected, the whole loop
RECURSIVE PipelineItem_row_affected(_, _, _)
PipelineItem_row_affected(it, msgs, skipped) ==
    IF it.finished
    THEN [ret |-> "Panic", val |-> 0, finished |-> TRUE, res |-> msgs, skipped |-> skipped]
    ELSE IF msgs = <<>>
    THEN [ret |-> "Closed", val |-> 0, finished |-> FALSE, res |-> msgs,
          skipped |-> skipped]
    ELSE LET m == Head(msgs) IN
         IF m.kind = "DataRow"
         THEN PipelineItem_row_affected(it, Tail(msgs), Append(skipped, m))
         ELSE IF m.kind = "CommandComplete"
         THEN [ret |-> "Ok", val |-> body_to_affected_rows(m.body), finished |-> TRUE,
               res |-> Tail(msgs), skipped |-> skipped]
         ELSE [ret |-> "Unexpected", val |-> 0, finished |-> FALSE, res |-> Tail(msgs),
               skipped |-> skipped]

\* the history entry of a freshly yielded Item
Yielded(it) ==
    [columns |-> it.columns, rows |-> <<>>, affected |-> <<>>, reads |-> 0,
     finished |-> FALSE]

\* res.try_next() as it would be were the Item not to borrow the Stream
StreamTryNext_unborrowed ==
    /\ phase = "Streaming"
    /\ LET r == PipelineStream_try_next(columns, res, <<>>) IN
          /\ columns' = r.columns
          /\ res' = r.res
          /\ item' = r.item
          /\ yielded' = IF r.ret = "Some" THEN Append(yielded, Yielded(r.item))
                        ELSE yielded
          /\ last' = [NoCall EXCEPT !.op = "stream.try_next", !.ret = r.ret,
                                    !.skipped = r.skipped,
                                    !.nread = Len(res) - Len(r.res),
                                    !.failed = last.failed \/ r.ret \in Errors]
    /\ UNCHANGED <<phase, SYNC_MODE, buf, tx, dispatch, queries>>

\* res.try_next() on the PipelineStream; the borrow of the previous Item ended
StreamTryNext ==
    /\ phase = "Streaming"
    /\ ~item.live
    /\ LET r == PipelineStream_try_next(columns, res, <<>>) IN
          /\ columns' = r.columns
          /\ res' = r.res
          /\ item' = r.item
          /\ yielded' = IF r.ret = "Some" THEN Append(yielded, Yielded(r.item))
                        ELSE yielded
          /\ last' = [NoCall EXCEPT !.op = "stream.try_next", !.ret = r.ret,
                                    !.skipped = r.skipped,
                                    !.nread = Len(res) - Len(r.res),
                                    !.failed = last.failed \/ r.ret \in Errors]
    /\ UNCHANGED <<phase, SYNC_MODE, buf, tx, dispatch, queries>>

\* item.try_next() on the live PipelineItem
ItemTryNext ==
    /\ phase = "Streaming"
    /\ item.live
    /\ LET r == PipelineItem_try_next(item, res)
           k == Len(yielded)
       IN /\ item' = r.item
          /\ res' = r.res
          /\ yielded' = [yielded EXCEPT ![k].rows = @ \o r.row,
                                        ![k].reads = @ + Len(res) - Len(r.res),
                                        ![k].finished = r.item.finished]
          /\ last' = [NoCall EXCEPT !.op = "item.try_next", !.ret = r.ret,
                                    !.nread = Len(res) - Len(r.res),
                                    !.failed = last.failed \/ r.ret \in Errors]
    /\ UNCHANGED <<phase, SYNC_MODE, columns, buf, tx, dispatch, queries>>

\* item.row_affected(), which consumes the PipelineItem
ItemRowAffected ==
    /\ phase = "Streaming"
    /\ item.live
    /\ LET r == PipelineItem_row_affected(item, res, <<>>)
           k == Len(yielded)
       IN /\ item' = NoItem
          /\ res' = r.res
          /\ phase' = IF r.ret = "Panic" THEN "Panicked" ELSE phase
          /\ yielded' = [yielded EXCEPT
                            ![k].affected = IF r.ret = "Ok" THEN <<r.val>> ELSE @,
                            ![k].reads = @ + Len(res) - Len(r.res),
                            ![k].finished = r.finished]
          /\ last' = [NoCall EXCEPT !.op = "item.row_affected", !.ret = r.ret,
                                    !.val = r.val, !.skipped = r.skipped,
                                    !.nread = Len(res) - Len(r.res),
                                    !.failed = last.failed \/ r.ret \in Errors]
    /\ UNCHANGED <<SYNC_MODE, columns, buf, tx, dispatch, queries>>

\* the PipelineItem goes out of scope
DropItem ==
    /\ phase = "Streaming"
    /\ item.live
    /\ item' = NoItem
    /\ last' = [NoCall EXCEPT !.op = "drop", !.failed = last.failed]
    /\ UNCHANGED <<phase, SYNC_MODE, columns, buf, tx, res, dispatch, queries, yielded>>

Init ==
    /\ phase = "Unbuilt"
    /\ SYNC_MODE \in BOOLEAN
    /\ columns = <<>>
    /\ buf = <<>>
    /\ tx = NotSent
    /\ res = <<>>
    /\ item = NoItem
    /\ dispatch = NoDispatch
    /\ queries = <<>>
    /\ yielded = <<>>
    /\ last = NoCall

Next ==
    \/ New
    \/ Unsync
    \/ WithCapacity
    \/ WithCapacityFromBuf
    \/ Default
    \/ QueryRaw
    \/ Query
    \/ ClientPipeline
    \/ ClientPipelinePresynced
    \/ StreamTryNext
    \/ ItemTryNext
    \/ ItemRowAffected
    \/ DropItem

Spec == Init /\ [][Next]_vars

\* ------------------------------------------- replies that may be ill formed
\* message kinds that may turn up where the protocol does not put them
Strays == {BindComplete, ReadyForQuery, ErrorResponse}

InsertAt(msgs, i, m) == SubSeq(msgs, 1, i) \o <<m>> \o SubSeq(msgs, i + 1, Len(msgs))

\* what the reply cursor may deliver in place of reply: reply itself, reply
\* with one stray message somewhere, or reply cut short by the connection
\* ending (the read after the cut returns the transport's error)
Faulted(reply) ==
    {reply}
        \cup {InsertAt(reply, i, m) : i \in 0..Len(reply), m \in Strays}
        \cup {SubSeq(reply, 1, i) : i \in 0..(Len(reply) - 1)}

SubmittedFaulted(op, r, b) ==
    /\ buf' = r.buf
    /\ tx' = r.tx
    /\ phase' = IF r.panic THEN "Panicked" ELSE "Streaming"
    /\ IF r.panic
       THEN /\ res' = <<>>
            /\ dispatch' = [NoDispatch EXCEPT !.op = op, !.given = b]
       ELSE \E shp \in {x \in ShapeSeqs(BoundStatements(r.tx.bytes)) :
                            \A k \in 1..Len(x) : x[k].rows <= MaxFaultRows} :
               \E reply \in Faulted(TakeBoundaries(ServerReply(r.tx.bytes, shp, 1),
                                                    r.tx.sync_count)) :
                  /\ res' = reply
                  /\ dispatch' = [op |-> op, given |-> b, shapes |-> shp,
                                  reply |-> reply,
                                  well_formed |->
                                      WellFormed(reply, shp, Len(queries), SYNC_MODE)]
    /\ last' = [NoCall EXCEPT !.op = op, !.ret = IF r.panic THEN "Panic" ELSE "Ok"]
    /\ UNCHANGED <<SYNC_MODE, columns, item, queries, yielded>>

\* Client::pipeline over a connection whose replies may be ill formed
ClientPipelineFaulted ==
    /\ phase = "Building"
    /\ SubmittedFaulted("pipeline", _pipeline(SYNC_MODE, TRUE, columns, buf), buf)

NextFaulted ==
    \/ New
    \/ Unsync
    \/ WithCapacity
    \/ WithCapacityFromBuf
    \/ Default
    \/ QueryRaw
    \/ Query
    \/ ClientPipelineFaulted
    \/ StreamTryNext
    \/ ItemTryNext
    \/ ItemRowAffected
    \/ DropItem

SpecFaulted == Init /\ [][NextFaulted]_vars

\* ------------------------------------------------- a caller that goes on
\* item.row_affected() on an Item that is still active
ItemRowAffectedActive ==
    /\ ~item.finished
    /\ ItemRowAffected

\* Client::pipeline answered by a well-formed reply of at most MaxLiveRows
\* data rows per query
ClientPipelineLive ==
    /\ ClientPipeline
    /\ \A k \in 1..Len(dispatch'.shapes) : dispatch'.shapes[k].rows <= MaxLiveRows

NextLive ==
    \/ New
    \/ Unsync
    \/ WithCapacity
    \/ WithCapacityFromBuf
    \/ Default
    \/ QueryRaw
    \/ Query
    \/ ClientPipelineLive
    \/ StreamTryNext
    \/ ItemTryNext
    \/ ItemRowAffectedActive
    \/ DropItem

\* the caller keeps advancing the Stream, and every Item it gets goes out of
\* use: it is consumed by row_affected or dropped, at any point
SpecLive ==
    /\ Init
    /\ [][NextLive]_vars
    /\ WF_vars(StreamTryNext)
    /\ WF_vars(DropItem)

\* ------------------------------------------------------ reply stream shape
\* everything the reply cursor of the submitted pipeline delivers
FullReply == dispatch.reply

\* the reply stream of the submitted pipeline is well formed for the queries
\* encoded
WellFormedReply == tx.sent /\ dispatch.well_formed

\* what follows the k-th bind-complete in a reply stream
RECURSIVE AfterBind(_, _)
AfterBind(msgs, k) ==
    IF msgs = <<>> \/ k <= 0 THEN msgs
    ELSE AfterBind(Tail(msgs), IF Head(msgs).kind = "BindComplete" THEN k - 1 ELSE k)

\* the Item that was live before the last Stream advance (0: none)
PrevItem == IF last.ret = "Some" THEN Len(yielded) - 1 ELSE Len(yielded)

\* the last call was a Stream advance made after Item p was dropped unfinished
\* while another query was still pending
AdvancedAfterAbandon(p) ==
    /\ WellFormedReply
    /\ last.op = "stream.try_next"
    /\ p = PrevItem
    /\ p >= 1
    /\ p < Len(queries)
    /\ ~yielded[p].finished

\* ----------------------------------------------------------------- claims

\* C1: in sync mode, on a well-formed reply stream, advancing the Stream
\* yields one Item per encoded query and no more: every advance made while a
\* query is pending returns an Item, "no more items" is returned only after N
\* Items, and the k-th Item carries the schema of the k-th encoded query.
C1_SyncStreamYieldsEveryQueryInOrder ==
    (SYNC_MODE /\ WellFormedReply) =>
        /\ Len(yielded) + Len(columns) = Len(queries)
        /\ \A k \in 1..Len(yielded) : yielded[k].columns = StatementColumns(queries[k])
        /\ last.op = "stream.try_next" =>
              /\ last.ret \in {"Some", "None"}
              /\ last.ret = "None" => Len(yielded) = Len(queries)
              /\ last.ret = "Some" => item.columns = StatementColumns(queries[Len(yielded)])

C1_Witness ==
    /\ SYNC_MODE /\ WellFormedReply
    /\ queries = <<"select_users", "update_users">>
    /\ last.op = "stream.try_next" /\ last.ret = "None"
    /\ Len(yielded) = 2
    /\ dispatch.shapes[1].rows = 0

\* C2: the rows an Item delivers are the data rows of its own query, in server
\* order, decoded against its own schema; an Item advanced to "no more rows"
\* has delivered all of them, and row_affected returns the count carried by
\* its own query's command-complete.
C2_ItemYieldsItsOwnRows ==
    WellFormedReply =>
        \A k \in 1..Len(yielded) :
            LET y == yielded[k]
                shp == dispatch.shapes[k]
            IN /\ Len(y.rows) <= shp.rows
               /\ \A j \in 1..Len(y.rows) :
                     /\ y.rows[j].body = DataRow(k, j).body
                     /\ y.rows[j].columns = StatementColumns(queries[k])
               /\ (y.finished /\ y.affected = <<>>) => Len(y.rows) = shp.rows
               /\ y.affected # <<>> => y.affected = <<shp.n>>

C2_Witness ==
    /\ WellFormedReply
    /\ Len(yielded) = 2
    /\ dispatch.shapes[1].rows = 3 /\ dispatch.shapes[2].rows = 0
    /\ Len(yielded[1].rows) = 3 /\ yielded[1].finished /\ yielded[1].affected = <<>>
    /\ last.op = "item.row_affected" /\ last.ret = "Ok" /\ last.val = 5
    /\ yielded[2].affected = <<5>>

\* C3: after an Item was dropped with some but not all of its rows read, the
\* next Stream advance discards exactly the remaining data rows and the
\* command-complete of the abandoned query (and, in sync framing, its
\* synchronization acknowledgement), returns the Item of the next encoded
\* query with that query's schema, and leaves no message of the abandoned
\* query on the cursor for the next Item to read.
C3_AdvanceAfterPartialDropSkipsTheRest ==
    \A p \in 1..Len(yielded) :
        (AdvancedAfterAbandon(p) /\ yielded[p].reads >= 1
                                 /\ yielded[p].reads < dispatch.shapes[p].rows) =>
            /\ last.ret = "Some"
            /\ last.skipped =
                  SubSeq(DataRows(p, dispatch.shapes[p].rows), yielded[p].reads + 1,
                         dispatch.shapes[p].rows)
                  \o <<CommandComplete(p, dispatch.shapes[p].n)>>
                  \o (IF SYNC_MODE THEN <<ReadyForQuery>> ELSE <<>>)
            /\ item.live /\ ~item.finished
            /\ item.columns = StatementColumns(queries[p + 1])
            /\ \A i \in 1..Len(res) :
                  res[i].kind \in {"DataRow", "CommandComplete"} => res[i].body[1] > p

C3_Witness ==
    /\ AdvancedAfterAbandon(1)
    /\ dispatch.shapes[1].rows = 3
    /\ yielded[1].reads = 1
    /\ Len(yielded) = 2
    /\ item.live

\* C4: catch-up does not depend on how much the abandoned Item read: whatever
\* number of messages (none, some, all its rows) it read before being dropped
\* unfinished, the next Stream advance returns the next query's Item with the
\* next query's schema and leaves the Stream in one and the same state, the
\* cursor right after the next query's bind-complete; every message it
\* discarded is a data row, a command-complete or a synchronization
\* acknowledgement.
C4_CatchUpIsUniform ==
    \A p \in 1..Len(yielded) :
        AdvancedAfterAbandon(p) =>
            /\ last.ret = "Some"
            /\ item = [live |-> TRUE, finished |-> FALSE,
                       columns |-> StatementColumns(queries[p + 1])]
            /\ columns = [i \in 1..(Len(queries) - p - 1) |->
                             StatementColumns(queries[p + 1 + i])]
            /\ res = AfterBind(FullReply, p + 1)
            /\ \A i \in 1..Len(last.skipped) :
                  last.skipped[i].kind \in {"DataRow", "CommandComplete", "ReadyForQuery"}

C4_Witness ==
    /\ AdvancedAfterAbandon(1)
    /\ dispatch.shapes[1].rows = 0
    /\ yielded[1].reads = 0
    /\ Len(yielded) = 2
    /\ item.live

\* the bytes one successful query call appends
Segment(stmt, sync) == <<Bind(stmt), Execute>> \o (IF sync THEN <<Sync>> ELSE <<>>)

\* the buffer built by successful query calls for stmts, in order
RECURSIVE EncodeAll(_, _)
EncodeAll(stmts, sync) ==
    IF stmts = <<>> THEN <<>>
    ELSE Segment(Head(stmts), sync) \o EncodeAll(Tail(stmts), sync)

\* the number of synchronization markers in a buffer
RECURSIVE CountSync(_)
CountSync(bytes) ==
    IF bytes = <<>> THEN 0
    ELSE (IF Head(bytes) = Sync THEN 1 ELSE 0) + CountSync(Tail(bytes))

QueryOps == {"query", "query_raw"}
SubmitOps == {"pipeline", "_pipeline"}

\* C5: submitting an unsync pipeline of N >= 1 queries through Client::pipeline
\* appends one synchronization marker after the N encoded queries and declares
\* one boundary; when the caller has encoded the marker (ENCODE_SYNC false)
\* nothing is appended and the boundary count is one again; either way the
\* Stream yields the N Items in encoding order.
C5_UnsyncOneMarkerOneBoundary ==
    (~SYNC_MODE /\ tx.sent /\ Len(queries) >= 1) =>
        /\ tx.sync_count = 1
        /\ buf = tx.bytes
        /\ dispatch.op = "pipeline" =>
              /\ dispatch.given = EncodeAll(queries, FALSE)
              /\ tx.bytes = dispatch.given \o <<Sync>>
              /\ CountSync(tx.bytes) = 1
        /\ dispatch.op = "_pipeline" => tx.bytes = dispatch.given
        /\ WellFormedReply
        /\ Len(yielded) + Len(columns) = Len(queries)
        /\ \A k \in 1..Len(yielded) : yielded[k].columns = StatementColumns(queries[k])
        /\ last.op = "stream.try_next" =>
              /\ last.ret \in {"Some", "None"}
              /\ last.ret = "None" => Len(yielded) = Len(queries)

C5_Witness ==
    /\ ~SYNC_MODE /\ tx.sent
    /\ dispatch.op = "pipeline"
    /\ queries = <<"update_users", "select_users">>
    /\ dispatch.shapes[2].rows = 2
    /\ last.op = "stream.try_next" /\ last.ret = "None"
    /\ Len(yielded) = 2

\* C6: submitting a sync pipeline declares as many boundaries as there are
\* pending queries and appends nothing: the transport is handed the buffer
\* exactly as the query calls built it.
C6_SyncBoundaryPerQueryNoMarker ==
    (SYNC_MODE /\ tx.sent) =>
        /\ tx.sync_count = Len(queries)
        /\ tx.sync_count = Len(yielded) + Len(columns)
        /\ tx.bytes = dispatch.given
        /\ buf = dispatch.given
        /\ tx.bytes = EncodeAll(queries, TRUE)

C6_Witness ==
    /\ SYNC_MODE /\ tx.sent
    /\ last.op = "pipeline"
    /\ Len(queries) = 2
    /\ tx.sync_count = 2

\* C7: while the pipeline is being built, whatever calls succeeded or failed,
\* the schema queue has one entry per query encoded in the buffer, the i-th
\* entry is the schema of the statement of the i-th segment, the buffer holds
\* whole segments only, and both follow the order of the successful calls.
C7_SchemaQueueMatchesBuffer ==
    ~tx.sent =>
        /\ Len(columns) = Len(BoundStatements(buf))
        /\ \A i \in 1..Len(columns) :
              columns[i] = StatementColumns(BoundStatements(buf)[i])
        /\ buf = EncodeAll(BoundStatements(buf), SYNC_MODE)
        /\ BoundStatements(buf) = queries

C7_Witness ==
    /\ phase = "Building"
    /\ last.op = "query" /\ last.ret = "EncodeError"
    /\ Len(columns) = 1
    /\ Len(BoundStatements(buf)) = 1

\* C8: a query call whose encoding fails returns the error and leaves the
\* buffer (length and content) and the schema queue as they were before the
\* call; a call that succeeds appends its segment and its schema to what the
\* earlier successful calls built, failed calls leaving no trace.
C8_EncodeRollback ==
    [][(phase = "Building" /\ last'.op \in QueryOps) =>
          /\ (~last'.args.encodes
                 /\ StatementParams(last'.args.stmt) = last'.args.nparams) =>
                /\ last'.ret = "EncodeError"
                /\ Len(buf') = Len(buf)
                /\ buf' = buf
                /\ columns' = columns
                /\ phase' = "Building"
          /\ last'.ret = "Ok" =>
                /\ buf = EncodeAll(queries, SYNC_MODE)
                /\ buf' = buf \o Segment(last'.args.stmt, SYNC_MODE)
                /\ columns' = Append(columns, StatementColumns(last'.args.stmt))]_vars

C8_Witness ==
    /\ phase = "Building"
    /\ last.op = "query_raw" /\ last.ret = "EncodeError"
    /\ ~last.args.encodes
    /\ queries = <<"select_users">>
    /\ buf = Segment("select_users", SYNC_MODE)

\* C9 as stated: a query call with a wrong parameter count returns a binding
\* error to its caller, leaves the buffer and the pending-query count
\* unchanged, and the pipeline can take further query calls.
C9_Original ==
    (last.op \in QueryOps /\ StatementParams(last.args.stmt) # last.args.nparams) =>
        /\ last.ret = "BindingError"
        /\ phase = "Building"

\* C9 amended: a query call with a wrong parameter count fails at the arity
\* assertion, a panic and not an error value returned to the caller, before
\* any byte is written: the buffer and the pending-query count are unchanged.
C9_ArityMismatchPanicsBeforeEncoding ==
    [][(phase = "Building" /\ last'.op \in QueryOps
           /\ StatementParams(last'.args.stmt) # last'.args.nparams) =>
          /\ last'.ret = "Panic"
          /\ phase' = "Panicked"
          /\ buf' = buf
          /\ columns' = columns
          /\ queries' = queries]_vars

C9_Witness ==
    /\ phase = "Panicked"
    /\ last.op = "query_raw" /\ last.ret = "Panic"
    /\ last.args.stmt = "update_users" /\ last.args.nparams = 0
    /\ Len(columns) = 1
    /\ buf = Segment("select_users", SYNC_MODE)

\* C10: submitting a pipeline with no query encoded fails at the assertion on
\* the buffer, before any I/O: nothing is handed to the transport, no
\* synchronization marker is appended and no Stream exists.
C10_EmptySubmitFailsBeforeIO ==
    (dispatch.op \in SubmitOps /\ queries = <<>>) =>
        /\ last.op \in SubmitOps /\ last.ret = "Panic"
        /\ phase = "Panicked"
        /\ tx = NotSent
        /\ buf = <<>>
        /\ res = <<>>
        /\ ~item.live
        /\ yielded = <<>>

C10_Witness ==
    /\ dispatch.op = "pipeline"
    /\ ~SYNC_MODE
    /\ queries = <<>> /\ columns = <<>>
    /\ phase = "Panicked"
    /\ tx = NotSent

\* C18: a pipeline constructed over a buffer supplied by the caller starts
\* with that buffer cleared (length 0) and an empty schema queue, whatever the
\* buffer held; so what is submitted later holds the queries encoded into this
\* pipeline and nothing else.
C18_BorrowedBufferIsCleared ==
    /\ last.op = "with_capacity_from_buf" =>
          /\ phase = "Building"
          /\ Len(buf) = 0
          /\ columns = <<>>
    /\ tx.sent =>
          tx.bytes = EncodeAll(queries, SYNC_MODE) \o (IF SYNC_MODE THEN <<>> ELSE <<Sync>>)

C18_Witness ==
    /\ last.op = "with_capacity_from_buf"
    /\ last.before = <<Bind("update_users"), Execute, Sync>>
    /\ buf = <<>>
    /\ phase = "Building"

\* C19 as stated: the default construction gives a usable, empty sync-mode
\* pipeline, as new does.
C19_Original ==
    last.op = "default" =>
        /\ last.ret = "Ok"
        /\ phase = "Building"
        /\ SYNC_MODE /\ buf = <<>> /\ columns = <<>>

\* C19 amended: new gives a usable, empty sync-mode pipeline (empty buffer,
\* empty schema queue, sync framing); the default construction gives none: it
\* panics, and no pipeline exists to encode into or to submit.
C19_DefaultPanicsNewIsEmptySync ==
    /\ last.op = "new" =>
          /\ last.ret = "Ok"
          /\ phase = "Building"
          /\ SYNC_MODE /\ buf = <<>> /\ columns = <<>>
    /\ last.op = "default" =>
          /\ last.ret = "Panic"
          /\ phase = "Panicked"
          /\ ~ENABLED (QueryRaw \/ Query \/ ClientPipeline)

C19_Witness ==
    /\ last.op = "default"
    /\ last.ret = "Panic"
    /\ phase = "Panicked"
    /\ SYNC_MODE

\* the number of messages read from the reply cursor since submission
Consumed == Len(dispatch.reply) - Len(res)

\* the messages the last call read from the reply cursor, in order
ReadByLast == SubSeq(dispatch.reply, Consumed - last.nread + 1, Consumed)

\* C11: once a Stream advance has returned "no more items", the advance that
\* follows returns "no more items" again, never an error, reads no message
\* from the cursor and leaves the Stream as it was, whatever messages are
\* still pending on the cursor.
C11_ExhaustedStreamStaysExhausted ==
    [][(last.op = "stream.try_next" /\ last.ret = "None") =>
          /\ last'.op = "stream.try_next"
          /\ last'.ret = "None"
          /\ last'.nread = 0
          /\ res' = res
          /\ columns' = columns /\ columns = <<>>
          /\ yielded' = yielded
          /\ ~item'.live]_vars

C11_Witness ==
    /\ last.op = "stream.try_next" /\ last.ret = "None"
    /\ columns = <<>>
    /\ \E i \in 1..Len(res) : res[i] = ErrorResponse
    /\ Len(yielded) = Len(queries)

\* C12: in every state of a Stream the size hint is (L, L), where L is the
\* length of the schema queue, and L is the number of queries encoded minus
\* the number of Items yielded so far: on a well-formed reply stream, the
\* number of Items still to be yielded.
C12_SizeHintIsExact ==
    phase = "Streaming" =>
        LET L == Len(queries) - Len(yielded) IN
            /\ L = Len(columns)
            /\ size_hint(columns) = <<L, <<L>>>>

C12_Witness ==
    /\ phase = "Streaming"
    /\ WellFormedReply
    /\ Len(queries) = 2 /\ Len(yielded) = 1
    /\ size_hint(columns) = <<1, <<1>>>>
    /\ last.op = "item.try_next"

\* the message kinds a Stream advance has an arm for
StreamKinds == {"BindComplete", "DataRow", "CommandComplete", "ReadyForQuery"}

\* C13: a Stream advance made while the schema queue is non-empty that reads
\* a message of any other kind than bind-complete, data-row, command-complete
\* and ready-for-query stops at that message and fails with the "unexpected
\* message" error: the call yields no Item and pops no schema entry. The
\* advance fails with that error in no other case.
C13_UnexpectedKindFailsTheAdvance ==
    last.op = "stream.try_next" =>
        LET read == ReadByLast IN
            /\ \A i \in 1..Len(read) :
                  read[i].kind \notin StreamKinds =>
                      /\ i = Len(read)
                      /\ last.ret = "Unexpected"
                      /\ ~item.live
                      /\ columns # <<>>
                      /\ Len(columns) + Len(yielded) = Len(queries)
            /\ last.ret = "Unexpected" =>
                  /\ read # <<>>
                  /\ read[Len(read)].kind \notin StreamKinds

C13_Witness ==
    /\ last.op = "stream.try_next" /\ last.ret = "Unexpected"
    /\ Len(ReadByLast) >= 2
    /\ ReadByLast[Len(ReadByLast)] = ErrorResponse
    /\ Len(columns) = 1 /\ Len(yielded) = 1
    /\ ~item.live

\* C14: after a Stream advance, an Item advance or row_affected has returned
\* a protocol violation or a transport error, the Stream is terminated: no
\* later Stream advance yields an Item.
C14_ErrorTerminatesTheStream ==
    ~(last.op = "stream.try_next" /\ last.ret = "Some" /\ last.failed)

\* C15: once an Item is finished it stays finished for as long as it lives,
\* and every advance of it returns "no more rows" without reading from the
\* cursor: the messages of the following query stay where they are.
C15_FinishedItemStaysFinished ==
    [][(item.live /\ item.finished) =>
          /\ item'.live => item'.finished
          /\ last'.op = "item.try_next" =>
                /\ last'.ret = "None"
                /\ last'.nread = 0
                /\ res' = res
                /\ item' = item
                /\ yielded' = yielded]_vars

C15_Witness ==
    /\ item.live /\ item.finished
    /\ last.op = "item.try_next" /\ last.ret = "None" /\ last.nread = 0
    /\ res # <<>>
    /\ Head(res) = BindComplete
    /\ Len(yielded[Len(yielded)].rows) = 2

\* C17: row_affected called on an Item that is already finished panics
\* before it reads anything from the cursor: no count is returned and the
\* cursor is where it was.
C17_RowAffectedOnFinishedItemPanics ==
    [][(item.live /\ item.finished /\ last'.op = "item.row_affected") =>
          /\ last'.ret = "Panic"
          /\ phase' = "Panicked"
          /\ last'.nread = 0
          /\ res' = res
          /\ yielded'[Len(yielded)].affected = <<>>]_vars

C17_Witness ==
    /\ last.op = "item.row_affected" /\ last.ret = "Panic"
    /\ phase = "Panicked"
    /\ yielded[Len(yielded)].finished
    /\ Len(yielded[Len(yielded)].rows) = 1
    /\ res # <<>>

\* C16: row_affected on an active Item, whether or not rows were read through
\* advance before, reads messages and discards every data row until the
\* first command-complete, reads nothing after it, and returns the count that
\* command-complete carries; a message of any other kind met before it ends
\* the call with the "unexpected message" error.
C16_RowAffectedReadsToCommandComplete ==
    (last.op = "item.row_affected" /\ last.ret # "Panic") =>
        LET read == ReadByLast
            n == Len(read)
            y == yielded[Len(yielded)]
        IN /\ \A i \in 1..(n - 1) : read[i].kind = "DataRow"
           /\ last.ret = "Ok" =>
                 /\ n >= 1
                 /\ \E q \in 1..Len(queries) : read[n] = CommandComplete(q, last.val)
                 /\ last.skipped = SubSeq(read, 1, n - 1)
                 /\ y.affected = <<last.val>>
           /\ last.ret = "Unexpected" =>
                 /\ n >= 1
                 /\ read[n].kind \notin {"DataRow", "CommandComplete"}
                 /\ y.affected = <<>>
           /\ last.ret = "Closed" =>
                 /\ res = <<>>
                 /\ n >= 1 => read[n].kind = "DataRow"
           /\ last.ret \in {"Ok", "Unexpected", "Closed"}

C16_Witness ==
    /\ last.op = "item.row_affected" /\ last.ret = "Ok"
    /\ last.val = 1
    /\ ReadByLast = <<DataRow(1, 1), CommandComplete(1, 1)>>
    /\ yielded[1].rows = <<>>
    /\ res # <<>>
    /\ Head(res) = ErrorResponse

\* C20: an advance of an active Item reads exactly one message. A data row is
\* returned as a row over the Item's schema and the Item stays active; a
\* command-complete finishes the Item and "no more rows" is returned; a
\* message of any other kind, bind-complete and ready-for-query included,
\* ends the call with the "unexpected message" error and the Item stays
\* active. (The end of the cursor is the one case with no message to read.)
C20_ItemAdvanceReadsOneMessage ==
    last.op = "item.try_next" =>
        LET read == ReadByLast
            y == yielded[Len(yielded)]
        IN /\ item.live
           /\ y.columns = item.columns
           /\ last.nread <= 1
           /\ last.nread = 1 =>
                 /\ read[1].kind = "DataRow" =>
                       /\ last.ret = "Some"
                       /\ ~item.finished
                       /\ y.rows # <<>>
                       /\ y.rows[Len(y.rows)] =
                              [columns |-> item.columns, body |-> read[1].body]
                 /\ read[1].kind = "CommandComplete" =>
                       /\ last.ret = "None"
                       /\ item.finished
                 /\ read[1].kind \notin {"DataRow", "CommandComplete"} =>
                       /\ last.ret = "Unexpected"
                       /\ ~item.finished
           /\ last.nread = 0 =>
                 \/ last.ret = "None" /\ item.finished
                 \/ last.ret = "Closed" /\ res = <<>> /\ ~item.finished

C20_Witness ==
    /\ last.op = "item.try_next" /\ last.ret = "Unexpected"
    /\ ReadByLast = <<BindComplete>>
    /\ item.live /\ ~item.finished
    /\ Len(yielded[Len(yielded)].rows) = 1

\* C21: a Stream advance pops at most one schema entry, and only when it
\* reads a bind-complete: the data rows, command-completes and
\* ready-for-query messages it reads leave the schema queue as it was; it
\* returns an Item only through the bind-complete branch, the bind-complete
\* being the last message it read, and the Item carries exactly the former
\* front entry of the queue.
C21_OnlyBindCompletePopsTheQueue ==
    [][(phase = "Streaming" /\ ~item.live /\ last'.op = "stream.try_next") =>
          LET read == ReadByLast'
              n == Len(read)
          IN IF last'.ret = "Some"
             THEN /\ columns # <<>>
                  /\ columns' = Tail(columns)
                  /\ item'.live /\ ~item'.finished
                  /\ item'.columns = Head(columns)
                  /\ n >= 1
                  /\ read[n] = BindComplete
                  /\ \A i \in 1..(n - 1) : read[i].kind # "BindComplete"
             ELSE /\ columns' = columns
                  /\ ~item'.live
                  /\ \A i \in 1..n : read[i].kind # "BindComplete"]_vars

C21_Witness ==
    /\ last.op = "stream.try_next" /\ last.ret = "Some"
    /\ Len(yielded) = 2
    /\ item.columns = StatementColumns(queries[2])
    /\ Len(ReadByLast) = 4
    /\ ReadByLast[1].kind = "DataRow"
    /\ ReadByLast[2].kind = "CommandComplete"
    /\ ReadByLast[3].kind = "ReadyForQuery"
    /\ columns = <<>>

\* the last call read to the end of the cursor without meeting a message
\* that ends it: it read nothing, or the last message it read is of kind in
\* passed
RanOut(passed) ==
    /\ res = <<>>
    /\ ReadByLast # <<>> => ReadByLast[Len(ReadByLast)].kind \in passed

\* C22: when the reply cursor returns an error in place of a message, the
\* Stream advance, Item advance or row_affected in progress returns that
\* error, and not "no more", a value or another error; the failing read
\* changes nothing: the schema queue keeps its length and no Item is yielded,
\* the Item's finished flag stays false and no count is recorded. The calls
\* return that error in no other case.
C22_CursorErrorIsReturnedAsIs ==
    /\ last.op = "stream.try_next" =>
          /\ last.ret = "Closed" <=>
                (columns # <<>> /\ RanOut({"DataRow", "CommandComplete", "ReadyForQuery"}))
          /\ last.ret = "Closed" =>
                /\ ~item.live
                /\ Len(columns) + Len(yielded) = Len(queries)
    /\ last.op = "item.try_next" =>
          /\ last.ret = "Closed" <=> (~item.finished /\ last.nread = 0)
          /\ last.ret = "Closed" => (item.live /\ res = <<>>)
          /\ item.finished =>
                (Consumed >= 1 /\ dispatch.reply[Consumed].kind = "CommandComplete")
    /\ last.op = "item.row_affected" =>
          /\ last.ret = "Closed" <=> (last.ret # "Panic" /\ RanOut({"DataRow"}))
          /\ last.ret = "Closed" =>
                /\ ~yielded[Len(yielded)].finished
                /\ yielded[Len(yielded)].affected = <<>>

C22_Witness ==
    /\ last.op = "item.try_next" /\ last.ret = "Closed"
    /\ item.live /\ ~item.finished
    /\ res = <<>>
    /\ Len(yielded[Len(yielded)].rows) = 1
    /\ Len(columns) = 1

RECURSIVE CountBindComplete(_)
CountBindComplete(msgs) ==
    IF msgs = <<>> THEN 0
    ELSE (IF Head(msgs) = BindComplete THEN 1 ELSE 0) + CountBindComplete(Tail(msgs))

\* C24: the number of Items a Stream has yielded never exceeds the number of
\* queries encoded, whatever the reply stream, one with a surplus
\* bind-complete included: every Item yielded took its schema from a
\* non-empty queue (each yield is paired with one entry of the queue, in
\* order), and once the queue is empty a bind-complete is not read any more.
C24_NeverMoreItemsThanQueries ==
    phase \in {"Streaming", "Panicked"} =>
        /\ Len(yielded) <= Len(queries)
        /\ Len(yielded) + Len(columns) = Len(queries)
        /\ \A k \in 1..Len(yielded) : yielded[k].columns = StatementColumns(queries[k])
        /\ (last.op = "stream.try_next" /\ last.ret = "Some") =>
              CountBindComplete(ReadByLast) = 1

C24_Witness ==
    /\ last.op = "stream.try_next" /\ last.ret = "None"
    /\ Len(queries) = 2 /\ Len(yielded) = 2
    /\ CountBindComplete(dispatch.reply) = 3
    /\ CountBindComplete(res) = 1

\* C25: when the reply stream of the submitted pipeline is well formed and the
\* caller keeps advancing the Stream, every Item going out of use at some
\* point (advanced to its end or not, consumed by row_affected, or dropped),
\* the Stream eventually returns "no more items", all Items yielded.
C25_StreamEventuallyExhausted ==
    (phase = "Streaming" /\ WellFormedReply) ~>
        (last.op = "stream.try_next" /\ last.ret = "None"
            /\ Len(yielded) = Len(queries))

C25_Witness ==
    /\ WellFormedReply
    /\ last.op = "stream.try_next" /\ last.ret = "None"
    /\ Len(yielded) = 2
    /\ ~yielded[1].finished
    /\ yielded[1].reads = 1
    /\ yielded[2].affected # <<>>

\* C26: on a well-formed reply stream the Stream reports its end as soon as
\* the N-th bind-complete has been consumed: the advance made after the last
\* Item was yielded returns "no more items" and reads nothing, so whatever the
\* last Item left unread of its query (data rows, command-complete) and the
\* final ready-for-query stay on the cursor.
C26_ExhaustedAfterLastBindComplete ==
    (WellFormedReply /\ last.op = "stream.try_next" /\ Len(queries) >= 1) =>
        /\ last.ret = "None" <=> (Len(yielded) = Len(queries) /\ ~item.live)
        /\ last.ret = "None" =>
              LET N == Len(queries)
                  rest == AfterBind(FullReply, N)
              IN /\ last.nread = 0
                 /\ last.skipped = <<>>
                 /\ res = SubSeq(rest, yielded[N].reads + 1, Len(rest))
                 /\ res # <<>>
                 /\ res[Len(res)] = ReadyForQuery

C26_Witness ==
    /\ WellFormedReply
    /\ last.op = "stream.try_next" /\ last.ret = "None"
    /\ Len(queries) = 2
    /\ yielded[2].reads = 1
    /\ res = <<DataRow(2, 2), DataRow(2, 3), CommandComplete(2, 3), ReadyForQuery>>

\* C27: on a well-formed reply stream, a Stream advance made after an Item
\* that reached finished (through advance or row_affected) reads no data row
\* and no command-complete: to yield the next Item it skips the
\* ready-for-query in sync mode and nothing otherwise. A Stream advance
\* skips a data row or a command-complete only after an Item was dropped
\* unfinished.
C27_NoCatchUpAfterFinishedItem ==
    (WellFormedReply /\ last.op = "stream.try_next") =>
        LET p == PrevItem
            caught_up == \E i \in 1..Len(last.skipped) :
                            last.skipped[i].kind \in {"DataRow", "CommandComplete"}
        IN /\ (p >= 1 /\ yielded[p].finished) =>
                 /\ ~caught_up
                 /\ last.ret = "Some" =>
                       last.skipped = IF SYNC_MODE THEN <<ReadyForQuery>> ELSE <<>>
           /\ caught_up => (p >= 1 /\ ~yielded[p].finished)

C27_Witness ==
    /\ WellFormedReply /\ SYNC_MODE
    /\ last.op = "stream.try_next" /\ last.ret = "Some"
    /\ Len(yielded) = 2
    /\ yielded[1].finished
    /\ yielded[1].affected = <<2>>
    /\ Len(yielded[1].rows) = 1
    /\ last.skipped = <<ReadyForQuery>>
====
